---------------------------- MODULE Spec2Model ----------------------------
(***************************************************************************)
(* Annotation-format conversion pipeline of AgML:                          *)
(*   src/src/agml/data/utils.py      label registry, box extractors and    *)
(*                                   the line-record / XML assemblers      *)
(*   src/agml/synthetic/converter.py the Helios directory reorganizer      *)
(*                                                                         *)
(* The module holds several specifications over one set of variables:      *)
(*   SpecLabels    get_label2id applied to bounded label sequences         *)
(*   SpecAnnoline  get_coco_annotation_from_annoline on bounded records    *)
(*   SpecObj       get_coco_annotation_from_obj on bounded XML objects     *)
(*   SpecImageInfo get_image_info_from_annoline on two annotation lines    *)
(*   SpecBbox      one job of convert_bbox_to_coco                         *)
(*   SpecBboxOpts  one job of convert_bbox_to_coco run with an id policy   *)
(*                 or with get_label_from_folder                           *)
(*   SpecBboxTokens one job of convert_bbox_to_coco on rows with label    *)
(*                 tokens outside the label map                            *)
(*   SpecXml       one job of convert_xmls_to_cocojson                     *)
(*   SpecXmlTwice  convert_xmls_to_cocojson called twice on the same files *)
(*   SpecMaskPoints mask_annotation_per_bbox on bounded point lists        *)
(*   SpecSubMask   the two sub-mask extractors on bounded contours         *)
(*   SpecHelios    one call of HeliosDataFormatConverter.convert           *)
(*   SpecHeliosFound one call of convert on a path with other directories  *)
(*                 and with the output of an earlier call                  *)
(* A specification leaves the variables of the other groups at their idle  *)
(* values.                                                                 *)
(***************************************************************************)
EXTENDS Integers, Sequences, FiniteSets, TLC

VARIABLES
    fn_pc, fn_arg, fn_ret,          \* pure-function harness: position, input, result
    pc, cfg, img_idx, cur,          \* assembler job: position, arguments, loop index, per-image locals
    images, annotations, categories,\* output_json_dict['images' / 'annotations' / 'categories']
    bnd_id,                         \* convert_xmls_to_cocojson's annotation counter
    json_file, img_dir, err,        \* file at output_jsonpath, files under output_imgpath, uncaught exception
    hpc, hmeta, fs, hloc, herr      \* Helios converter: position, metadata, file system, locals, raised exception

fvars == <<fn_pc, fn_arg, fn_ret>>
avars == <<pc, cfg, img_idx, cur, images, annotations, categories, bnd_id, json_file, img_dir, err>>
hvars == <<hpc, hmeta, fs, hloc, herr>>
vars  == <<fn_pc, fn_arg, fn_ret,
           pc, cfg, img_idx, cur, images, annotations, categories, bnd_id, json_file, img_dir, err,
           hpc, hmeta, fs, hloc, herr>>

\* Python's None, as a value comparable with the strings used as tags.
None == "None"

-----------------------------------------------------------------------------
(* Bounds of the model *)

\* longest label sequence handed to get_label2id
MaxLabels == 4
\* largest coordinate / category token tried on the two box extractors
MaxCoord == 4
\* most annotation lines (or XML files) of one assembler job
MaxImages == 2
\* most boxes (or XML objects) of one image
MaxBoxes == 2
\* most source images of a Helios dataset
MaxViews == 2
\* most points of a vector point list
MaxPoints == 4
\* most contours of a sub-mask
MaxRegions == 2

-----------------------------------------------------------------------------
(* Generic helpers *)

Range(s) == {s[i] : i \in DOMAIN s}

SeqsUpTo(S, n) == UNION {[1..k -> S] : k \in 0..n}

Max(S) == CHOOSE m \in S : \A x \in S : x <= m

\* Python's int() on a quotient: truncation towards zero.
Trunc(n, d) == IF n >= 0 THEN n \div d ELSE -((-n) \div d)

-----------------------------------------------------------------------------
(* utils.py: the label registry *)

\* BUG VARIANT: ids counted from 0.
get_label2id_zero_based(labels_str) ==
    [n \in Range(labels_str) |-> Max({i \in DOMAIN labels_str : labels_str[i] = n}) - 1]

\* dict(zip(labels_str, range(1, len+1))): a later duplicate overwrites the id.
get_label2id(labels_str) ==
    [n \in Range(labels_str) |-> Max({i \in DOMAIN labels_str : labels_str[i] = n})]

-----------------------------------------------------------------------------
(* utils.py: the two box extractors *)

\* The result of a call: the exception it raised ("none" when it returned),
\* the shape of the returned value ("ann": a non-empty dict, "empty": [],
\* "none": None) and the dict itself.
NoAnn == [area |-> 0, iscrowd |-> 0, bbox |-> <<0, 0, 0, 0>>, category_id |-> 0,
          ignore |-> 0, segmentation |-> <<>>]

Returned(ann)  == [exc |-> "none", kind |-> "ann", ann |-> ann]
ReturnedEmpty  == [exc |-> "none", kind |-> "empty", ann |-> NoAnn]
ReturnedNone   == [exc |-> "none", kind |-> "none", ann |-> NoAnn]
Raised(e)      == [exc |-> e, kind |-> "none", ann |-> NoAnn]

\* Python truthiness of the returned value, as in `if ann:`.
Truthy(r) == r.exc = "none" /\ r.kind = "ann"

\* int(float(tok) * resize), resize given as the fraction resize[1] / resize[2].
Scaled(tok, resize) == Trunc(tok * resize[1], resize[2])

\* BUG VARIANT: exclusive width and height, as in the XML path of the spec.
annoline_exclusive(obj, label2id, resize) ==
    LET xmin == Scaled(obj[1], resize)
        ymin == Scaled(obj[2], resize)
        xmax == Scaled(obj[3], resize)
        ymax == Scaled(obj[4], resize)
    IN  IF ~(xmax > xmin /\ ymax > ymin) THEN Raised("AssertionError")
        ELSE Returned([area |-> (xmax - xmin) * (ymax - ymin), iscrowd |-> 0,
                       bbox |-> <<xmin, ymin, xmax - xmin, ymax - ymin>>,
                       category_id |-> obj[5], ignore |-> 0, segmentation |-> <<>>])

\* obj is the token row <<x1, y1, x2, y2, label, ...>> of one box.
get_coco_annotation_from_annoline(obj, label2id, resize) ==
    LET category_id == obj[5]
        xmin == Scaled(obj[1], resize)
        ymin == Scaled(obj[2], resize)
        xmax == Scaled(obj[3], resize)
        ymax == Scaled(obj[4], resize)
        o_width  == xmax - xmin + 1
        o_height == ymax - ymin + 1
    IN  IF ~(xmax > xmin /\ ymax > ymin) THEN Raised("AssertionError")
        ELSE Returned([area |-> o_width * o_height, iscrowd |-> 0,
                       bbox |-> <<xmin, ymin, o_width, o_height>>,
                       category_id |-> category_id, ignore |-> 0,
                       segmentation |-> <<>>])

\* An XML <object>: subname and name are label strings (subname None when the
\* element is absent), tag is the box element present ("bndbox", "bbox" or
\* None), box its <<xmin, ymin, xmax, ymax>> texts read as integers.
\* name_converter is a function on some label names; None and {} are both the
\* function with the empty domain (`if name_converter:` treats them alike).

\* The label the extractor looks up, and whether the lookup is guarded.
resolved_label(obj, name_converter) ==
    IF obj.subname # None THEN obj.subname
    ELSE IF obj.name \in DOMAIN name_converter
         THEN name_converter[obj.name]
         ELSE obj.name

\* BUG VARIANT: the assertion compares the corners as read (xmax > xmin given),
\* and width/height are the exclusive differences of the corners as read.
obj_box_strict(box, category_id) ==
    LET xmin == box[1] - 1
        ymin == box[2] - 1
        xmax == box[3]
        ymax == box[4]
    IN  IF ~(xmax > box[1] /\ ymax > box[2]) THEN Raised("AssertionError")
        ELSE Returned([area |-> (xmax - box[1]) * (ymax - box[2]), iscrowd |-> 0,
                       bbox |-> <<xmin, ymin, xmax - box[1], ymax - box[2]>>,
                       category_id |-> category_id, ignore |-> 0,
                       segmentation |-> <<>>])

\* lines 190-205: the box part of get_coco_annotation_from_obj.
obj_box(box, category_id) ==
    LET xmin == box[1] - 1
        ymin == box[2] - 1
        xmax == box[3]
        ymax == box[4]
        o_width  == xmax - xmin
        o_height == ymax - ymin
    IN  IF ~(xmax > xmin /\ ymax > ymin) THEN Raised("AssertionError")
        ELSE Returned([area |-> o_width * o_height, iscrowd |-> 0,
                       bbox |-> <<xmin, ymin, o_width, o_height>>,
                       category_id |-> category_id, ignore |-> 0,
                       segmentation |-> <<>>])

get_coco_annotation_from_obj(obj, label2id, name_converter) ==
    LET label == resolved_label(obj, name_converter)
    IN  IF obj.subname = None /\ label \notin DOMAIN label2id THEN ReturnedEmpty
        ELSE IF label \notin DOMAIN label2id THEN Raised("KeyError")
        ELSE IF obj.tag = None THEN ReturnedNone
        ELSE obj_box(obj.box, label2id[label])

-----------------------------------------------------------------------------
(* Inputs of the pure-function specifications *)

LabelNames == {"bg", "weed", "leaf"}

\* coordinates tried on the extractors: a small grid and the values of the
\* scenarios of the specification (10 and 50)
CoordSet == (0..MaxCoord) \cup {10, 50}

\* resize factors as fractions: 1.0 and 0.5
Resizes == {<<1, 1>>, <<1, 2>>}

EmptyMap == [n \in {} |-> None]

\* label map of the XML scenarios: "leaf" is the only known label beside "bg"
XmlLabel2id == get_label2id(<<"bg", "leaf">>)

NameConverters == {EmptyMap, [n \in {"rock"} |-> "leaf"], [n \in {"leaf"} |-> "moss"]}

XmlObj(subname, name, tag, box) ==
    [subname |-> subname, name |-> name, tag |-> tag, box |-> box]

Idle == <<>>

\* A file that does not exist; a file that exists is <<its content>>.
NoFile == <<>>

FnIdle == fn_pc = "idle" /\ fn_arg = Idle /\ fn_ret = Idle

-----------------------------------------------------------------------------
(* Idle values of the groups a specification does not use *)

AsmIdle ==
    /\ pc = "idle" /\ cfg = Idle /\ img_idx = 0 /\ cur = Idle
    /\ images = <<>> /\ annotations = <<>> /\ categories = <<>>
    /\ bnd_id = 0 /\ json_file = NoFile /\ img_dir = {} /\ err = "none"

HeliosIdle ==
    /\ hpc = "idle" /\ hmeta = Idle /\ fs = Idle /\ hloc = Idle /\ herr = "none"

-----------------------------------------------------------------------------
(* SpecLabels: get_label2id *)

InitLabels ==
    /\ fn_pc = "in"
    /\ fn_arg \in [fn : {"get_label2id"}, labels_str : SeqsUpTo(LabelNames, MaxLabels)]
    /\ fn_ret = Idle
    /\ AsmIdle /\ HeliosIdle

CallGetLabel2id ==
    /\ fn_pc = "in" /\ fn_arg.fn = "get_label2id"
    /\ fn_ret' = get_label2id(fn_arg.labels_str)
    /\ fn_pc' = "out"
    /\ UNCHANGED <<fn_arg, avars, hvars>>

(* SpecAnnoline: get_coco_annotation_from_annoline *)

InitAnnoline ==
    /\ fn_pc = "in"
    /\ fn_arg \in [fn : {"annoline"},
                   obj : CoordSet \X CoordSet \X CoordSet \X CoordSet \X {1, 2},
                   resize : Resizes]
    /\ fn_ret = Idle
    /\ AsmIdle /\ HeliosIdle

CallAnnoline ==
    /\ fn_pc = "in" /\ fn_arg.fn = "annoline"
    /\ fn_ret' = get_coco_annotation_from_annoline(
                     fn_arg.obj, get_label2id(<<"bg", "weed">>), fn_arg.resize)
    /\ fn_pc' = "out"
    /\ UNCHANGED <<fn_arg, avars, hvars>>

(* SpecObj: get_coco_annotation_from_obj *)

InitObj ==
    /\ fn_pc = "in"
    /\ fn_arg \in [fn : {"obj"},
                   obj : {XmlObj(s, n, t, b) :
                            s \in {None, "leaf", "rock"}, n \in {"leaf", "rock"},
                            t \in {"bndbox", "bbox", None},
                            b \in CoordSet \X CoordSet \X CoordSet \X CoordSet},
                   name_converter : NameConverters]
    /\ fn_ret = Idle
    /\ AsmIdle /\ HeliosIdle

CallObj ==
    /\ fn_pc = "in" /\ fn_arg.fn = "obj"
    /\ fn_ret' = get_coco_annotation_from_obj(fn_arg.obj, XmlLabel2id, fn_arg.name_converter)
    /\ fn_pc' = "out"
    /\ UNCHANGED <<fn_arg, avars, hvars>>

SpecLabels == InitLabels /\ [][CallGetLabel2id]_vars

SpecAnnoline == InitAnnoline /\ [][CallAnnoline]_vars

SpecObj == InitObj /\ [][CallObj]_vars

-----------------------------------------------------------------------------
(* utils.py: strings, paths and images as the assemblers use them *)

\* A string is a sequence of chunks: a chunk is one decimal digit or a run of
\* other characters.  A path is the sequence of its '/'-separated components.
Digits == {"0", "1", "2", "3", "4", "5", "6", "7", "8", "9"}

DigitVal(c) == CASE c = "0" -> 0 [] c = "1" -> 1 [] c = "2" -> 2 [] c = "3" -> 3
                 [] c = "4" -> 4 [] c = "5" -> 5 [] c = "6" -> 6 [] c = "7" -> 7
                 [] c = "8" -> 8 [] c = "9" -> 9

IsDigit(c) == c \in Digits

RECURSIVE ToInt(_)
\* int(s) of a string of digits
ToInt(ds) == IF ds = <<>> THEN 0
             ELSE 10 * ToInt(SubSeq(ds, 1, Len(ds) - 1)) + DigitVal(ds[Len(ds)])

\* BUG VARIANT: only the first contiguous run of digits of the name.
first_digit_run(filename) ==
    IF \A i \in DOMAIN filename : ~IsDigit(filename[i]) THEN <<>>
    ELSE LET a == CHOOSE i \in DOMAIN filename :
                      IsDigit(filename[i]) /\ \A j \in 1..(i - 1) : ~IsDigit(filename[j])
             b == CHOOSE i \in a..Len(filename) :
                      /\ \A j \in a..i : IsDigit(filename[j])
                      /\ (i = Len(filename) \/ ~IsDigit(filename[i + 1]))
         IN  SubSeq(filename, a, b)

\* ''.join(filter(str.isdigit, filename)): every digit of the name, in order
filter_isdigit(filename) == SelectSeq(filename, IsDigit)

\* path.split('/')[-k]
FromEnd(path, k) == path[Len(path) - k + 1]

\* `category_name in label2id` for a folder name: the label whose name is the
\* component, None when there is none.
LabelOfFolder(comp, label2id) ==
    IF \E l \in DOMAIN label2id : comp = <<l>>
    THEN CHOOSE l \in DOMAIN label2id : comp = <<l>>
    ELSE None

\* One annotation line: the image path (anno_line[0]), the decoded image's
\* shape <<height, width>>, whether cv2.imread can decode it, whether the copy
\* into output_imgpath succeeds, and the box count (anno_line[1]).
AnnoLines(paths) ==
    [path : paths, shape : {<<480, 640>>}, readable : BOOLEAN, copy_ok : BOOLEAN,
     bbox_cnt : 0..MaxBoxes]

NoInfo == [file_name |-> <<>>, height |-> 0, width |-> 0, id |-> 0]

\* BUG VARIANT: the failure of cv2.imread goes unnoticed and a record of
\* size 0 is built for the image.
get_image_info_from_annoline_unguarded(line, idx, resize, add_foldername) ==
    [ok |-> TRUE,
     info |-> [file_name |-> FromEnd(line.path, 1),
               height |-> IF line.readable THEN Scaled(line.shape[1], resize) ELSE 0,
               width |-> IF line.readable THEN Scaled(line.shape[2], resize) ELSE 0,
               id |-> idx]]

\* BUG VARIANT: the composite name is built from the grandparent and the
\* parent directory.
get_image_info_from_annoline_grandparent(line, idx, resize, add_foldername) ==
    IF ~line.readable THEN [ok |-> FALSE, info |-> NoInfo]
    ELSE IF add_foldername /\ Len(line.path) < 3 THEN [ok |-> FALSE, info |-> NoInfo]
    ELSE [ok |-> TRUE,
          info |-> [file_name |-> IF add_foldername
                                  THEN FromEnd(line.path, 3) \o <<"_">> \o FromEnd(line.path, 2)
                                       \o <<"_">> \o FromEnd(line.path, 1)
                                  ELSE FromEnd(line.path, 1),
                    height |-> Scaled(line.shape[1], resize),
                    width |-> Scaled(line.shape[2], resize),
                    id |-> idx]]

\* lines 78-107; the result is <<image_info is not None, image_info>>.
get_image_info_from_annoline(line, idx, resize, add_foldername) ==
    IF ~line.readable THEN [ok |-> FALSE, info |-> NoInfo]
    ELSE IF add_foldername /\ Len(line.path) < 2 THEN [ok |-> FALSE, info |-> NoInfo]
    ELSE [ok |-> TRUE,
          info |-> [file_name |-> IF add_foldername
                                  THEN FromEnd(line.path, 2) \o <<"_">> \o FromEnd(line.path, 1)
                                  ELSE FromEnd(line.path, 1),
                    height |-> Scaled(line.shape[1], resize),
                    width |-> Scaled(line.shape[2], resize),
                    id |-> idx]]

(* SpecImageInfo: get_image_info_from_annoline on two lines of one job *)

InfoPaths == {<<<<"weed">>, <<"v", "1">>, <<"img", "7">>>>,
              <<<<"x">>, <<"v", "1">>, <<"img", "7">>>>,
              <<<<"x">>, <<"v", "2">>, <<"img", "7">>>>,
              <<<<"v", "1">>, <<"img", "8">>>>,
              <<<<"img", "7">>>>}

InfoLines == [path : InfoPaths, shape : {<<480, 640>>}, readable : BOOLEAN,
              copy_ok : {TRUE}, bbox_cnt : {0}]

InitImageInfo ==
    /\ fn_pc = "in"
    /\ fn_arg \in [fn : {"image_info"}, a : InfoLines, b : InfoLines, resize : Resizes,
                   add_foldername : BOOLEAN]
    /\ fn_ret = Idle
    /\ AsmIdle /\ HeliosIdle

CallImageInfo ==
    /\ fn_pc = "in" /\ fn_arg.fn = "image_info"
    /\ fn_ret' = <<get_image_info_from_annoline(fn_arg.a, 1, fn_arg.resize,
                                                fn_arg.add_foldername),
                   get_image_info_from_annoline(fn_arg.b, 2, fn_arg.resize,
                                                fn_arg.add_foldername)>>
    /\ fn_pc' = "out"
    /\ UNCHANGED <<fn_arg, avars, hvars>>

SpecImageInfo == InitImageInfo /\ [][CallImageInfo]_vars

-----------------------------------------------------------------------------
(* utils.py: convert_bbox_to_coco, one job *)

\* lines 249-256: the image id, or the exception the computation raises.
bbox_img_unique_id(c, idx, line) ==
    IF c.image_id_list # <<>>
    THEN IF idx + 1 \in DOMAIN c.image_id_list
         THEN [exc |-> "none", id |-> c.image_id_list[idx + 1]]
         ELSE [exc |-> "IndexError", id |-> 0]
    ELSE IF c.extract_num_from_imgid
         THEN IF filter_isdigit(FromEnd(line.path, 1)) = <<>>
              THEN [exc |-> "ValueError", id |-> 0]
              ELSE [exc |-> "none", id |-> ToInt(filter_isdigit(FromEnd(line.path, 1)))]
         ELSE [exc |-> "none", id |-> idx + 1]

\* BUG VARIANT: the parent directory is tried before the grandparent.
folder_category_parent_first(path, label2id) ==
    IF Len(path) >= 2 /\ LabelOfFolder(FromEnd(path, 2), label2id) # None
    THEN LabelOfFolder(FromEnd(path, 2), label2id)
    ELSE IF Len(path) >= 3 THEN LabelOfFolder(FromEnd(path, 3), label2id)
    ELSE None

\* lines 268-291: the folder-derived category; None when neither the
\* grandparent nor the parent directory names a label (the bare `raise`).
folder_category(path, label2id) ==
    IF Len(path) >= 3 /\ LabelOfFolder(FromEnd(path, 3), label2id) # None
    THEN LabelOfFolder(FromEnd(path, 3), label2id)
    ELSE IF Len(path) >= 2 THEN LabelOfFolder(FromEnd(path, 2), label2id)
    ELSE None

\* BUG VARIANT: the extractor's exception is not swallowed.
try_annoline_uncaught(obj, label2id, resize) ==
    LET r == get_coco_annotation_from_annoline(obj, label2id, resize)
    IN  [ann |-> r, caught |-> "none", raised |-> r.exc]

\* lines 293-296: try: ann = extractor(...) except: ann = None
try_annoline(obj, label2id, resize) ==
    LET r == get_coco_annotation_from_annoline(obj, label2id, resize)
    IN  IF r.exc # "none" THEN [ann |-> ReturnedNone, caught |-> r.exc, raised |-> "none"]
        ELSE [ann |-> r, caught |-> "none", raised |-> "none"]

\* lines 299-302: the annotation id.  Without bnd_id_list the statement
\* `bnd_idx + 1` has no effect, and the id is the index of the box in its
\* own line, counted from 0.
bbox_ann_id(c, idx, bnd_idx) ==
    IF c.bnd_id_list # <<>>
    THEN IF idx + 1 \in DOMAIN c.bnd_id_list /\ bnd_idx + 1 \in DOMAIN c.bnd_id_list[idx + 1]
         THEN [exc |-> "none", id |-> c.bnd_id_list[idx + 1][bnd_idx + 1]]
         ELSE [exc |-> "IndexError", id |-> 0]
    ELSE [exc |-> "none", id |-> bnd_idx]

\* ann.update({'image_id': ..., 'id': ...})
ann_update(ann, image_id, id) ==
    [area |-> ann.area, iscrowd |-> ann.iscrowd, bbox |-> ann.bbox,
     category_id |-> ann.category_id, ignore |-> ann.ignore,
     segmentation |-> ann.segmentation, image_id |-> image_id, id |-> id]

\* BUG VARIANT: the background label, the first of the map, is left out.
category_infos_no_background(labels) ==
    [i \in 1..(Len(labels) - 1) |->
        [supercategory |-> "none", id |-> get_label2id(labels)[labels[i + 1]],
         name |-> labels[i + 1]]]

\* lines 322-324 and 383-385: one record per item of label2id, in the order
\* of the label sequence the map was built from.
category_infos(labels) ==
    [i \in DOMAIN labels |->
        [supercategory |-> "none", id |-> get_label2id(labels)[labels[i]], name |-> labels[i]]]

\* The locals of the current iteration: the line (or XML file), its image
\* info, the index of the next box and the box count, the row (or object)
\* handled last and the exception the `except:` clause swallowed for it.
NoCur == [line |-> Idle, info |-> NoInfo, has_info |-> FALSE, bnd_idx |-> 0,
          n |-> 0, obj |-> Idle, caught |-> "none"]

\* The arguments of the jobs SpecBbox runs.
BboxPaths == {<<<<"weed">>, <<"v", "1">>, <<"img", "7">>>>,
              <<<<"x">>, <<"v", "1">>, <<"img", "7">>>>}

\* token rows <<x1, y1, x2, y2, label, score>>
BboxBoxes == {<<10, 10, 50, 50, 2, 1>>, <<50, 10, 10, 50, 2, 1>>, <<10, 10, 50, 10, 1, 1>>}

\* a caller's bnd_id_list: distinct ids, one row per line
BndIdList == [i \in 1..(MaxImages + 1) |-> [j \in 1..(MaxBoxes + 1) |-> 100 * i + j]]

BboxCfg(bnd_id_list) ==
    [kind |-> "bbox", labels |-> <<"bg", "weed">>, label2id |-> get_label2id(<<"bg", "weed">>),
     image_id_list |-> <<>>, bnd_id_list |-> bnd_id_list,
     get_label_from_folder |-> FALSE, resize |-> <<1, 1>>, add_foldername |-> FALSE,
     extract_num_from_imgid |-> FALSE, paths |-> BboxPaths, boxes |-> BboxBoxes]

\* The job's annotation_paths are given as a list (cfg.files) whose files
\* keep their content from call to call; otherwise the files of the job are
\* drawn one by one as the loop reaches them.
ListGiven == "files" \in DOMAIN cfg

AsmStart ==
    /\ pc = "loop" /\ img_idx = 0 /\ cur = NoCur
    /\ images = <<>> /\ annotations = <<>> /\ categories = <<>>
    /\ bnd_id = 0 /\ json_file = NoFile /\ img_dir = {} /\ err = "none"

InitBbox ==
    /\ cfg \in {BboxCfg(<<>>), BboxCfg(BndIdList)}
    /\ AsmStart
    /\ FnIdle /\ HeliosIdle

\* lines 247-262: the head of one iteration, for the next annotation line.
BboxImage ==
    /\ pc = "loop" /\ cfg.kind = "bbox" /\ img_idx < MaxImages
    /\ \E line \in AnnoLines(cfg.paths) :
         LET uid == bbox_img_unique_id(cfg, img_idx, line)
             res == get_image_info_from_annoline(line, uid.id, cfg.resize, cfg.add_foldername)
         IN  IF uid.exc # "none"
             THEN /\ pc' = "abort" /\ err' = uid.exc
                  /\ UNCHANGED <<img_idx, cur, images>>
             ELSE IF res.ok
             THEN /\ images' = Append(images, res.info)
                  /\ cur' = [line |-> line, info |-> res.info, has_info |-> TRUE,
                             bnd_idx |-> 0, n |-> line.bbox_cnt, obj |-> Idle,
                             caught |-> "none"]
                  /\ pc' = "boxes"
                  /\ UNCHANGED <<img_idx, err>>
             ELSE /\ img_idx' = img_idx + 1
                  /\ cur' = [NoCur EXCEPT !.line = line]
                  /\ UNCHANGED <<pc, images, err>>
    /\ UNCHANGED <<cfg, annotations, categories, bnd_id, json_file, img_dir, fvars, hvars>>

\* lines 267-304: one iteration of the box loop.
BboxBox ==
    /\ pc = "boxes" /\ cfg.kind = "bbox" /\ cur.bnd_idx < cur.n
    /\ \E row \in cfg.boxes :
         LET cat == folder_category(cur.line.path, cfg.label2id)
             obj == IF cfg.get_label_from_folder /\ cat # None
                    THEN IF Len(row) < 5 THEN Append(row, cfg.label2id[cat])
                         ELSE [row EXCEPT ![5] = cfg.label2id[cat]]
                    ELSE row
             t   == try_annoline(obj, cfg.label2id, cfg.resize)
             aid == bbox_ann_id(cfg, img_idx, cur.bnd_idx)
         IN  IF cfg.get_label_from_folder /\ cat = None
             THEN /\ pc' = "abort" /\ err' = "RuntimeError"
                  /\ UNCHANGED <<cur, annotations>>
             ELSE IF t.raised # "none"
             THEN /\ pc' = "abort" /\ err' = t.raised
                  /\ cur' = [cur EXCEPT !.obj = obj]
                  /\ UNCHANGED annotations
             ELSE IF Truthy(t.ann) /\ aid.exc # "none"
             THEN /\ pc' = "abort" /\ err' = aid.exc
                  /\ cur' = [cur EXCEPT !.obj = obj]
                  /\ UNCHANGED annotations
             ELSE /\ annotations' = IF Truthy(t.ann)
                                    THEN Append(annotations,
                                                ann_update(t.ann.ann, cur.info.id, aid.id))
                                    ELSE annotations
                  /\ cur' = [cur EXCEPT !.bnd_idx = @ + 1, !.obj = obj, !.caught = t.caught]
                  /\ UNCHANGED <<pc, err>>
    /\ UNCHANGED <<cfg, img_idx, images, categories, bnd_id, json_file, img_dir, fvars, hvars>>

\* lines 306-315: the copy of the image, whose failure is swallowed.
BboxCopy ==
    /\ pc = "boxes" /\ cfg.kind = "bbox" /\ cur.bnd_idx = cur.n
    /\ img_dir' = IF cur.line.copy_ok THEN img_dir \cup {cur.info.file_name} ELSE img_dir
    /\ img_idx' = img_idx + 1
    /\ pc' = "loop"
    /\ UNCHANGED <<cfg, cur, images, annotations, categories, bnd_id, json_file, err, fvars, hvars>>

\* BUG VARIANT: the JSON is also written between two images.
WriteJsonPerImage ==
    /\ pc = "loop"
    /\ categories' = category_infos(cfg.labels)
    /\ json_file' = <<[images |-> images, annotations |-> annotations,
                      categories |-> category_infos(cfg.labels)]>>
    /\ pc' \in {"loop", "done"}
    /\ UNCHANGED <<cfg, img_idx, cur, images, annotations, bnd_id, img_dir, err, fvars, hvars>>

\* lines 322-330 and 383-389: the categories and the one write of the JSON.
WriteJson ==
    /\ pc = "loop" /\ (ListGiven => img_idx = Len(cfg.files))
    /\ categories' = category_infos(cfg.labels)
    /\ json_file' = <<[images |-> images, annotations |-> annotations,
                      categories |-> category_infos(cfg.labels)]>>
    /\ pc' = "done"
    /\ UNCHANGED <<cfg, img_idx, cur, images, annotations, bnd_id, img_dir, err, fvars, hvars>>

NextBbox == BboxImage \/ BboxBox \/ BboxCopy \/ WriteJson

SpecBbox == InitBbox /\ [][NextBbox]_vars

(* SpecBboxOpts: jobs of convert_bbox_to_coco run with one of the options
   extract_num_from_imgid, image_id_list, get_label_from_folder *)

\* file names with two runs of digits, with one run and with no digit
DigitPaths == {<<<<"weed">>, <<"v", "1">>, <<"img", "1", "2", "_v", "3">>>>,
               <<<<"x">>, <<"v", "1">>, <<"img", "1", "2", "_v", "3">>>>,
               <<<<"x">>, <<"v", "1">>, <<"img", "4">>>>,
               <<<<"x">>, <<"v", "1">>, <<"img">>>>}

\* images below a label directory two levels up, one level up, and below none
FolderPaths == {<<<<"weed">>, <<"bg">>, <<"img", "7">>>>,
                <<<<"x">>, <<"weed">>, <<"img", "7">>>>,
                <<<<"x">>, <<"v", "1">>, <<"img", "7">>>>}

\* a caller's image_id_list: distinct ids, one per line
ImageIdList == [i \in 1..(MaxImages + 1) |-> 10 + i]

BboxOptCfgs ==
    {[BboxCfg(<<>>) EXCEPT !.extract_num_from_imgid = TRUE, !.paths = DigitPaths,
                           !.boxes = {<<10, 10, 50, 50, 1, 1>>}],
     [BboxCfg(<<>>) EXCEPT !.image_id_list = ImageIdList,
                           !.boxes = {<<10, 10, 50, 50, 1, 1>>}],
     [BboxCfg(<<>>) EXCEPT !.get_label_from_folder = TRUE, !.paths = FolderPaths,
                           !.boxes = {<<10, 10, 50, 50, 1, 1>>}]}

InitBboxOpts ==
    /\ cfg \in BboxOptCfgs
    /\ pc = "loop" /\ img_idx = 0 /\ cur = NoCur
    /\ images = <<>> /\ annotations = <<>> /\ categories = <<>>
    /\ bnd_id = 0 /\ json_file = NoFile /\ img_dir = {} /\ err = "none"
    /\ FnIdle /\ HeliosIdle

SpecBboxOpts == InitBboxOpts /\ [][NextBbox]_vars

(* SpecBboxTokens: jobs of convert_bbox_to_coco on rows whose label token
   may be no id of the label map, without and with get_label_from_folder *)

\* rows with the token of `weed` and with a token that is no id of the map
TokenBoxes == {<<10, 10, 50, 50, 2, 1>>, <<20, 20, 60, 60, 7, 1>>}

BboxTokenCfgs ==
    {[BboxCfg(<<>>) EXCEPT !.boxes = TokenBoxes],
     [BboxCfg(<<>>) EXCEPT !.boxes = TokenBoxes, !.get_label_from_folder = TRUE,
                           !.paths = FolderPaths]}

InitBboxTokens ==
    /\ cfg \in BboxTokenCfgs
    /\ AsmStart
    /\ FnIdle /\ HeliosIdle

SpecBboxTokens == InitBboxTokens /\ [][NextBbox]_vars

-----------------------------------------------------------------------------
(* utils.py: convert_xmls_to_cocojson, one job *)

\* One annotation file: its path (a_path), the <filename> text of its root,
\* the entry of img_paths for it, the decoded image's shape, whether
\* cv2.imread can decode the image, whether cv2.imwrite succeeds, and the
\* number of <object> elements.
XmlFiles(a_paths) ==
    [a_path : a_paths, filename : {<<<<"imgs">>, <<"img", "7">>>>},
     img_path : {<<<<"imgs">>, <<"img", "7">>>>}, shape : {<<480, 640>>},
     readable : BOOLEAN, copy_ok : BOOLEAN, n : 0..MaxBoxes]

\* lines 109-143, called with resize = 1.0 and add_foldername = False: the
\* result is NoInfo (image_info = None) when the image cannot be decoded.
get_image_info(filename, readable, shape, idx) ==
    IF ~readable THEN [ok |-> FALSE, info |-> NoInfo]
    ELSE [ok |-> TRUE,
          info |-> [file_name |-> FromEnd(filename, 1), height |-> shape[1],
                    width |-> shape[2], id |-> idx]]

\* lines 355-359: the image id, or the exception int('') raises.
xml_img_unique_id(c, idx, file) ==
    IF c.extract_num_from_imgid
    THEN IF filter_isdigit(FromEnd(file.a_path, 1)) = <<>>
         THEN [exc |-> "ValueError", id |-> 0]
         ELSE [exc |-> "none", id |-> ToInt(filter_isdigit(FromEnd(file.a_path, 1)))]
    ELSE [exc |-> "none", id |-> idx + 1]

\* BUG VARIANT: the increment of the counter is lost.
xml_bnd_id_stuck(b) == b

\* line 372: bnd_id = bnd_id + 1
xml_bnd_id_after(b) == b + 1

XmlAPaths == {<<<<"ann">>, <<"a", "1">>>>, <<<<"ann">>, <<"c">>>>}

XmlObjs == {XmlObj(None, "leaf", "bndbox", <<10, 10, 50, 50>>),
            XmlObj(None, "leaf", "bndbox", <<10, 10, 10, 50>>),
            XmlObj(None, "leaf", "bbox",   <<50, 10, 10, 50>>),
            XmlObj(None, "rock", "bndbox", <<10, 10, 50, 50>>),
            XmlObj(None, "leaf", None,     <<10, 10, 50, 50>>),
            XmlObj("rock", "leaf", "bndbox", <<10, 10, 50, 50>>)}

XmlCfg(extract_num, img_paths_given) ==
    [kind |-> "xml", labels |-> <<"bg", "leaf">>, label2id |-> XmlLabel2id,
     name_converter |-> EmptyMap, extract_num_from_imgid |-> extract_num,
     img_paths_given |-> img_paths_given, a_paths |-> XmlAPaths, objs |-> XmlObjs]

InitXml ==
    /\ cfg \in {XmlCfg(TRUE, TRUE), XmlCfg(FALSE, FALSE)}
    /\ pc = "loop" /\ img_idx = 0 /\ cur = NoCur
    /\ images = <<>> /\ annotations = <<>> /\ categories = <<>>
    /\ bnd_id = 1 /\ json_file = NoFile /\ img_dir = {} /\ err = "none"
    /\ FnIdle /\ HeliosIdle

\* line 347: the file the loop reaches next
NextXmlFiles ==
    IF ListGiven
    THEN IF img_idx < Len(cfg.files) THEN {cfg.files[img_idx + 1]} ELSE {}
    ELSE XmlFiles(cfg.a_paths)

\* line 367: the <object> element the loop reaches next
NextXmlObjs ==
    IF ListGiven THEN {cur.line.objs[cur.bnd_idx + 1]} ELSE cfg.objs

\* lines 350-365: the head of one iteration, for the next annotation file.
\* img_info is appended to 'images' also when it is None.
XmlImage ==
    /\ pc = "loop" /\ cfg.kind = "xml" /\ img_idx < MaxImages
    /\ \E file \in NextXmlFiles :
         LET uid == xml_img_unique_id(cfg, img_idx, file)
             filename == IF cfg.img_paths_given THEN file.img_path ELSE file.filename
             res == get_image_info(filename, file.readable, file.shape, uid.id)
         IN  IF uid.exc # "none"
             THEN /\ pc' = "abort" /\ err' = uid.exc
                  /\ UNCHANGED <<cur, images>>
             ELSE /\ images' = Append(images, res.info)
                  /\ cur' = [line |-> file, info |-> res.info, has_info |-> res.ok,
                             bnd_idx |-> 0, n |-> file.n, obj |-> Idle, caught |-> "none"]
                  /\ pc' = "boxes"
                  /\ UNCHANGED err
    /\ UNCHANGED <<cfg, img_idx, annotations, categories, bnd_id, json_file, img_dir, fvars, hvars>>

\* lines 367-372: one iteration of the object loop; the extractor's
\* exceptions and the TypeError of None['id'] leave the function.
XmlObject ==
    /\ pc = "boxes" /\ cfg.kind = "xml" /\ cur.bnd_idx < cur.n
    /\ \E obj \in NextXmlObjs :
         LET r == get_coco_annotation_from_obj(obj, cfg.label2id, cfg.name_converter)
         IN  IF r.exc # "none"
             THEN /\ pc' = "abort" /\ err' = r.exc
                  /\ cur' = [cur EXCEPT !.obj = obj]
                  /\ UNCHANGED <<annotations, bnd_id>>
             ELSE IF Truthy(r) /\ ~cur.has_info
             THEN /\ pc' = "abort" /\ err' = "TypeError"
                  /\ cur' = [cur EXCEPT !.obj = obj]
                  /\ UNCHANGED <<annotations, bnd_id>>
             ELSE IF Truthy(r)
             THEN /\ annotations' = Append(annotations, ann_update(r.ann, cur.info.id, bnd_id))
                  /\ bnd_id' = xml_bnd_id_after(bnd_id)
                  /\ cur' = [cur EXCEPT !.bnd_idx = @ + 1, !.obj = obj]
                  /\ UNCHANGED <<pc, err>>
             ELSE /\ cur' = [cur EXCEPT !.bnd_idx = @ + 1, !.obj = obj]
                  /\ UNCHANGED <<pc, err, annotations, bnd_id>>
    /\ UNCHANGED <<cfg, img_idx, images, categories, json_file, img_dir, fvars, hvars>>

\* lines 375-381: img_info['file_name'] raises TypeError when img_info is
\* None; a failure of cv2.imwrite is swallowed.
XmlCopy ==
    /\ pc = "boxes" /\ cfg.kind = "xml" /\ cur.bnd_idx = cur.n
    /\ IF ~cur.has_info
       THEN /\ pc' = "abort" /\ err' = "TypeError"
            /\ UNCHANGED <<img_idx, img_dir>>
       ELSE /\ img_dir' = IF cur.line.copy_ok THEN img_dir \cup {cur.info.file_name}
                          ELSE img_dir
            /\ img_idx' = img_idx + 1
            /\ pc' = "loop"
            /\ UNCHANGED err
    /\ UNCHANGED <<cfg, cur, images, annotations, categories, bnd_id, json_file, fvars, hvars>>

NextXml == XmlImage \/ XmlObject \/ XmlCopy \/ WriteJson

SpecXml == InitXml /\ [][NextXml]_vars

(* SpecXmlTwice: convert_xmls_to_cocojson called again and again on one list
   of annotation files that nothing changes between the calls *)

\* The annotation files on disk: each with its <object> elements in document
\* order.
RunFiles ==
    {[a_path |-> p, filename |-> <<<<"imgs">>, <<"img", "7">>>>,
      img_path |-> <<<<"imgs">>, <<"img", "7">>>>, shape |-> <<480, 640>>,
      readable |-> TRUE, copy_ok |-> ok, n |-> Len(objs), objs |-> objs] :
        p \in {<<<<"ann">>, <<"a", "1">>>>, <<<<"ann">>, <<"a", "2">>>>},
        ok \in BOOLEAN,
        objs \in {<<>>,
                  <<XmlObj(None, "leaf", "bndbox", <<10, 10, 50, 50>>),
                    XmlObj(None, "leaf", None, <<10, 10, 50, 50>>),
                    XmlObj(None, "bg", "bndbox", <<20, 20, 60, 60>>)>>}}

XmlListCfg(extract_num, files) ==
    [files |-> files] @@ XmlCfg(extract_num, FALSE)

InitXmlTwice ==
    /\ cfg \in {XmlListCfg(e, f) : e \in BOOLEAN, f \in SeqsUpTo(RunFiles, MaxImages)}
    /\ pc = "loop" /\ img_idx = 0 /\ cur = NoCur
    /\ images = <<>> /\ annotations = <<>> /\ categories = <<>>
    /\ bnd_id = 1 /\ json_file = NoFile /\ img_dir = {} /\ err = "none"
    /\ FnIdle /\ HeliosIdle

\* BUG VARIANT: the annotation counter lives on from call to call.
XmlCallAgainKeepingCounter ==
    /\ pc = "done" /\ cfg.kind = "xml"
    /\ pc' = "loop" /\ img_idx' = 0 /\ cur' = NoCur
    /\ images' = <<>> /\ annotations' = <<>> /\ categories' = <<>>
    /\ UNCHANGED <<cfg, bnd_id, json_file, img_dir, err, fvars, hvars>>

\* lines 333-346: the function is entered again with the same arguments;
\* output_json_dict and bnd_id start afresh, the files written stay.
XmlCallAgain ==
    /\ pc = "done" /\ cfg.kind = "xml"
    /\ pc' = "loop" /\ img_idx' = 0 /\ cur' = NoCur
    /\ images' = <<>> /\ annotations' = <<>> /\ categories' = <<>>
    /\ bnd_id' = 1
    /\ UNCHANGED <<cfg, json_file, img_dir, err, fvars, hvars>>

NextXmlTwice == XmlImage \/ XmlObject \/ XmlCopy \/ WriteJson \/ XmlCallAgain

SpecXmlTwice == InitXmlTwice /\ [][NextXmlTwice]_vars

-----------------------------------------------------------------------------
(* converter.py: the Helios dataset on disk *)

\* A label text file: whether it exists and its lines, each line the
\* <<x_c, y_c, w, h>> of a box in units of 1 / HDenom of the image side.
HDenom == 8
MissingFile == [exists |-> FALSE, lines |-> <<>>]
TextFile(lines) == [exists |-> TRUE, lines |-> lines]

\* A source image: the directories above it below the dataset path (the
\* per-subject directory, then the view directory) and the label text files
\* beside it.
SrcImage(parents, leaves, fruits, clusters) ==
    [parents |-> parents,
     files |-> [leaves |-> leaves, fruits |-> fruits, clusters |-> clusters]]

\* the directories of the k-th source image: image0/view0, image1/view0,
\* image0/view1, image1/view1, ...
ParentsOf(k) ==
    <<<<"image", IF k % 2 = 1 THEN "0" ELSE "1">>, <<"view", IF k <= 2 THEN "0" ELSE "1">>>>

HLabels == <<"leaves", "fruits">>

LeavesFiles   == {MissingFile, TextFile(<<>>), TextFile(<<<<4, 4, 2, 2>>>>),
                  TextFile(<<<<4, 4, 2, 2>>, <<2, 6, 2, 4>>>>)}
FruitsFiles   == {MissingFile, TextFile(<<<<2, 6, 2, 4>>>>)}
ClustersFiles == {MissingFile, TextFile(<<<<4, 4, 2, 2>>>>)}

\* the name of the output image directory, os.path.join(path, 'images')
ImagesDirName == <<"images">>

\* glob "image*": the directory name starts with "image"
StartsWithImage(name) == name # <<>> /\ name[1] \in {"image", "images"}

\* dir_[-1].isnumeric()
EndsNumeric(name) == name # <<>> /\ IsDigit(name[Len(name)])

\* agml.utils.io.get_dir_list(path): the names of the directories directly
\* below the dataset path.
get_dir_list(f) ==
    f.dirs \cup (IF f.images_dir = NoFile THEN {} ELSE {ImagesDirName})

\* lines 225-226: the directories _remove_existing_image_dirs deletes
image_dirs(f) == {d \in get_dir_list(f) : EndsNumeric(d)}

\* lines 102-103: every *.jpeg below a top-level directory whose name starts
\* with "image", the files of an existing images/ directory included.
glob_jpeg(f) ==
    SelectSeq(f.src, LAMBDA im : im.parents[1] \in f.dirs /\ StartsWithImage(im.parents[1]))
    \o (IF f.images_dir = NoFile THEN <<>>
        ELSE LET names == f.images_dir[1]
                 RECURSIVE AsSeq(_)
                 AsSeq(S) == IF S = {} THEN <<>>
                             ELSE LET x == CHOOSE y \in S : TRUE
                                  IN  <<SrcImage(<<ImagesDirName>>, MissingFile, MissingFile,
                                                 MissingFile)>> \o AsSeq(S \ {x})
             IN  AsSeq(names))

\* lines 176-189 for one line of a text file: pixel <<x_min, y_min, w, h>>
\* for an image of meta.image_size = <<height, width>>, truncated to int32.
box_to_coco(b, image_size) ==
    <<Trunc((2 * b[1] - b[3]) * image_size[2], 2 * HDenom),
      Trunc((2 * (HDenom - b[2]) - b[4]) * image_size[1], 2 * HDenom),
      Trunc(b[3] * image_size[2], HDenom),
      Trunc(b[4] * image_size[1], HDenom)>>

\* lines 164-174: the text file read for a label, `clusters` standing in for
\* a missing `fruits`.
label_file(files, label) ==
    IF files[label].exists THEN files[label]
    ELSE IF label = "fruits" THEN files["clusters"]
    ELSE MissingFile

\* lines 155-195: the boxes of one image by label index (from 1), or the
\* exception raised: FileNotFoundError for a missing file, IndexError for
\* the slice annotations[:, 1:] of an empty file.
_convert_text_files_to_object_annotations(meta, im) ==
    LET Bad(i) == LET f == label_file(im.files, meta.labels[i])
                  IN  ~f.exists \/ f.lines = <<>>
    IN  IF \E i \in DOMAIN meta.labels : Bad(i)
        THEN LET i == CHOOSE i \in DOMAIN meta.labels :
                          Bad(i) /\ \A j \in 1..(i - 1) : ~Bad(j)
             IN  [exc |-> IF label_file(im.files, meta.labels[i]).exists
                          THEN "IndexError" ELSE "FileNotFoundError",
                  bboxes |-> <<>>]
        ELSE [exc |-> "none",
              bboxes |-> [i \in DOMAIN meta.labels |->
                            LET f == label_file(im.files, meta.labels[i])
                            IN  [j \in DOMAIN f.lines |->
                                    box_to_coco(f.lines[j], meta.image_size)]]]

\* lines 209-211: "{image_num}-{view_num}.jpeg" from the two directories
\* above the image (the dataset's own name when there is only one).
new_image_name(meta, im) ==
    LET view_num  == im.parents[Len(im.parents)]
        image_num == IF Len(im.parents) >= 2 THEN im.parents[Len(im.parents) - 1]
                     ELSE meta.name
    IN  image_num \o <<"-">> \o view_num \o <<".jpeg">>

\* lines 119-125
image_coco(meta, jpegs) ==
    [i \in DOMAIN jpegs |->
        [file_name |-> new_image_name(meta, jpegs[i]), height |-> meta.image_size[1],
         width |-> meta.image_size[2], id |-> i]]

RECURSIVE Flatten(_)
Flatten(ss) == IF ss = <<>> THEN <<>> ELSE Head(ss) \o Flatten(Tail(ss))

\* lines 130-138: the records of one image; image_box_tracker starts at 1
\* for every image.
image_annotations(boxes_by_label, image_id) ==
    LET recs == Flatten([l \in DOMAIN boxes_by_label |->
                    [j \in DOMAIN boxes_by_label[l] |->
                        [bbox |-> boxes_by_label[l][j],
                         area |-> boxes_by_label[l][j][3] * boxes_by_label[l][j][4],
                         category_id |-> l, image_id |-> image_id, id |-> 0,
                         iscrowd |-> 0, ignore |-> 0, segmentation |-> <<>>]]])
    IN  [k \in DOMAIN recs |-> [recs[k] EXCEPT !.id = k]]

RECURSIVE annotation_coco(_, _)
\* lines 128-138, over image_annotation_map in insertion order
annotation_coco(map, n) ==
    IF n = 0 THEN <<>>
    ELSE annotation_coco(map, n - 1) \o image_annotations(map[n], n)

\* lines 141-143: ids from enumerate(), counted from 0
category_coco(meta) ==
    [i \in DOMAIN meta.labels |->
        [name |-> meta.labels[i], supercategory |-> "none", id |-> i - 1]]

-----------------------------------------------------------------------------
(* converter.py: HeliosDataFormatConverter.convert, one call *)

Meta == [name |-> <<"ds">>, annotation_type |-> "object_detection",
         labels |-> HLabels, image_size |-> <<16, 16>>]

NoLoc == [jpeg_images |-> <<>>, map |-> <<>>, k |-> 0, exc |-> "none", pending |-> {}]

HeliosDatasets ==
    UNION {{[k \in 1..n |-> SrcImage(ParentsOf(k), lv[k], fr[k], cl[k])] :
               lv \in [1..n -> LeavesFiles], fr \in [1..n -> FruitsFiles],
               cl \in [1..n -> ClustersFiles]} : n \in 0..MaxViews}

InitHelios ==
    /\ hpc = "start" /\ hmeta = Meta /\ herr = "none" /\ hloc = NoLoc
    /\ \E src \in HeliosDatasets :
         fs = [src |-> src,
               dirs |-> {src[k].parents[1] : k \in DOMAIN src} \cup {<<".metadata">>},
               images_dir |-> NoFile, json |-> NoFile]
    /\ FnIdle /\ AsmIdle

\* the exception e reaches `except Exception as e`
HRaise(e) == hpc' = "cleanup" /\ hloc' = [hloc EXCEPT !.exc = e]

\* lines 90-92 and 102-103
HGlob ==
    /\ hpc = "start" /\ hmeta.annotation_type = "object_detection"
    /\ hloc' = [hloc EXCEPT !.jpeg_images = glob_jpeg(fs), !.k = 0]
    /\ hpc' = "read"
    /\ UNCHANGED <<hmeta, fs, herr, fvars, avars>>

\* lines 107-110: one iteration
HRead ==
    /\ hpc = "read" /\ hloc.k < Len(hloc.jpeg_images)
    /\ LET r == _convert_text_files_to_object_annotations(hmeta, hloc.jpeg_images[hloc.k + 1])
       IN  IF r.exc # "none" THEN HRaise(r.exc)
           ELSE /\ hloc' = [hloc EXCEPT !.map = Append(@, r.bboxes), !.k = @ + 1]
                /\ UNCHANGED hpc
    /\ UNCHANGED <<hmeta, fs, herr, fvars, avars>>

\* lines 113 and 197-202: os.makedirs(images, exist_ok = True)
HMakeDirs ==
    /\ hpc = "read" /\ hloc.k = Len(hloc.jpeg_images)
    /\ \E ok \in BOOLEAN :
         IF ok
         THEN /\ fs' = [fs EXCEPT !.images_dir = IF @ = NoFile THEN <<{}>> ELSE @]
              /\ hloc' = [hloc EXCEPT !.k = 0]
              /\ hpc' = "copy"
         ELSE HRaise("OSError") /\ UNCHANGED fs
    /\ UNCHANGED <<hmeta, herr, fvars, avars>>

\* lines 208-213: one shutil.copyfile; a failed copy may leave the target
HMoveImage ==
    /\ hpc = "copy" /\ hloc.k < Len(hloc.jpeg_images)
    /\ \E out \in {"ok", "fail", "fail_partial"} :
         LET name == new_image_name(hmeta, hloc.jpeg_images[hloc.k + 1])
             put  == [fs EXCEPT !.images_dir = <<@[1] \cup {name}>>]
         IN  IF out = "ok"
             THEN /\ fs' = put
                  /\ hloc' = [hloc EXCEPT !.k = @ + 1]
                  /\ UNCHANGED hpc
             ELSE /\ fs' = IF out = "fail_partial" THEN put ELSE fs
                  /\ HRaise("OSError")
    /\ UNCHANGED <<hmeta, herr, fvars, avars>>

\* lines 119-153: the JSON contents and the write of annotations.json; a
\* failed write may leave a truncated file
HWriteJson ==
    /\ hpc = "copy" /\ hloc.k = Len(hloc.jpeg_images)
    /\ \E out \in {"ok", "fail", "fail_partial"} :
         LET doc == [images |-> image_coco(hmeta, hloc.jpeg_images),
                     annotations |-> annotation_coco(hloc.map, Len(hloc.map)),
                     categories |-> category_coco(hmeta)]
         IN  IF out = "ok"
             THEN /\ fs' = [fs EXCEPT !.json = <<[complete |-> TRUE, doc |-> doc]>>]
                  /\ hpc' = "remove"
                  /\ hloc' = [hloc EXCEPT !.pending = image_dirs(fs)]
             ELSE /\ fs' = IF out = "fail_partial"
                           THEN [fs EXCEPT !.json = <<[complete |-> FALSE, doc |-> doc]>>]
                           ELSE fs
                  /\ HRaise("OSError")
    /\ UNCHANGED <<hmeta, herr, fvars, avars>>

\* BUG VARIANT: the copied images are left behind.
cleanup_json_only(f) == [f EXCEPT !.json = NoFile]

\* BUG VARIANT: the cleanup also deletes the original directories.
cleanup_removing_originals(f) ==
    [f EXCEPT !.json = NoFile, !.images_dir = NoFile, !.dirs = @ \ image_dirs(f)]

\* lines 216-221: the file system after the cleanup of a failed conversion
_cleanup_failed_object_detection_conversion(f) ==
    [f EXCEPT !.json = NoFile, !.images_dir = NoFile]

\* lines 93-95: except Exception as e: cleanup; raise e
HCleanup ==
    /\ hpc = "cleanup"
    /\ fs' = _cleanup_failed_object_detection_conversion(fs)
    /\ herr' = hloc.exc
    /\ hpc' = "failed"
    /\ UNCHANGED <<hmeta, hloc, fvars, avars>>

\* lines 96-97 and 223-228: one shutil.rmtree of the else branch; its
\* exception leaves convert as it is
HRemoveDir ==
    /\ hpc = "remove" /\ hloc.pending # {}
    /\ \E d \in hloc.pending, ok \in BOOLEAN :
         IF ok
         THEN /\ fs' = [fs EXCEPT !.dirs = @ \ {d}]
              /\ hloc' = [hloc EXCEPT !.pending = @ \ {d}]
              /\ UNCHANGED <<hpc, herr>>
         ELSE /\ herr' = "OSError"
              /\ hpc' = "failed"
              /\ UNCHANGED <<fs, hloc>>
    /\ UNCHANGED <<hmeta, fvars, avars>>

\* convert returns
HReturn ==
    /\ hpc = "remove" /\ hloc.pending = {}
    /\ hpc' = "done"
    /\ UNCHANGED <<hmeta, fs, hloc, herr, fvars, avars>>

NextHelios ==
    HGlob \/ HRead \/ HMakeDirs \/ HMoveImage \/ HWriteJson \/ HCleanup \/ HRemoveDir \/ HReturn

SpecHelios == InitHelios /\ [][NextHelios]_vars

(* SpecHeliosFound: one call of convert on a dataset path as it may be found:
   with directories beside the per-subject ones, and with the output of an
   earlier call *)

GoodImage(parents) ==
    SrcImage(parents, TextFile(<<<<4, 4, 2, 2>>>>), TextFile(<<<<2, 6, 2, 4>>>>), MissingFile)

\* the source images still on disk: none (an earlier call deleted them), one
\* below image0, one each below image0 and imageA, one whose label file of
\* `leaves` is missing
FoundSources ==
    {<<>>,
     <<GoodImage(ParentsOf(1))>>,
     <<GoodImage(ParentsOf(1)), GoodImage(<<<<"image", "A">>, <<"view", "0">>>>)>>,
     <<SrcImage(ParentsOf(1), MissingFile, TextFile(<<<<2, 6, 2, 4>>>>), MissingFile)>>}

\* directories that hold no image of the dataset
OtherDirs == {<<".metadata">>, <<"calib", "2">>}

\* what an earlier successful call left: images/ with one image and the
\* annotations.json of that image
EarlierImages == <<GoodImage(ParentsOf(1))>>
EarlierOutput ==
    [images_dir |-> <<{new_image_name(Meta, EarlierImages[1])}>>,
     json |-> <<[complete |-> TRUE,
                 doc |-> [images |-> image_coco(Meta, EarlierImages),
                          annotations |-> annotation_coco(
                              <<_convert_text_files_to_object_annotations(
                                    Meta, EarlierImages[1]).bboxes>>, 1),
                          categories |-> category_coco(Meta)]]>>]
NoOutput == [images_dir |-> NoFile, json |-> NoFile]

\* fs.before keeps what was on disk when convert was called.
InitHeliosFound ==
    /\ hpc = "start" /\ hmeta = Meta /\ herr = "none" /\ hloc = NoLoc
    /\ \E src \in FoundSources, others \in SUBSET OtherDirs, out \in {NoOutput, EarlierOutput} :
         LET dirs == {src[k].parents[1] : k \in DOMAIN src} \cup others
         IN  fs = [src |-> src, dirs |-> dirs,
                   images_dir |-> out.images_dir, json |-> out.json,
                   before |-> [dirs |-> dirs, images_dir |-> out.images_dir,
                               json |-> out.json]]
    /\ FnIdle /\ AsmIdle

SpecHeliosFound == InitHeliosFound /\ [][NextHelios]_vars

-----------------------------------------------------------------------------
(* utils.py: the polygon extractors *)

\* A point is <<x, y>>; a contour of measure.find_contours is a closed ring of
\* <<row, col>> pairs in the padded sub-mask.  A polygon as shapely hands it
\* back is its area, its bounds <<minx, miny, maxx, maxy>> (<<>> when empty)
\* and the points of its exterior ring.
EmptyPolygon == [area |-> 0, bounds |-> <<>>, coords |-> <<>>]

Min(S) == CHOOSE m \in S : \A x \in S : m <= x


\* multi_poly.bounds / poly.bounds of a non-empty set of points
BoundsOf(points) ==
    <<Min({points[i][1] : i \in DOMAIN points}), Min({points[i][2] : i \in DOMAIN points}),
      Max({points[i][1] : i \in DOMAIN points}), Max({points[i][2] : i \in DOMAIN points})>>

\* numpy's ravel().tolist() of an array of points: x1, y1, x2, y2, ...
Ravel(points) ==
    [k \in 1..(2 * Len(points)) |-> points[(k + 1) \div 2][IF k % 2 = 1 THEN 1 ELSE 2]]

\* lines 436-438 and 480-482: contour[i] = (col - 1, row - 1)
FlipContour(contour) ==
    [i \in DOMAIN contour |-> <<contour[i][2] - 1, contour[i][1] - 1>>]

\* the ring without its closing point
OpenRing(points) ==
    IF Len(points) > 1 /\ points[1] = points[Len(points)]
    THEN SubSeq(points, 1, Len(points) - 1) ELSE points

Collinear(points) ==
    \A i, j, k \in DOMAIN points :
        (points[j][1] - points[i][1]) * (points[k][2] - points[i][2])
          = (points[j][2] - points[i][2]) * (points[k][1] - points[i][1])

\* the four corners of an axis-parallel rectangle, in ring order
IsRectangle(q) ==
    /\ Len(q) = 4
    /\ q[1][1] # q[3][1] /\ q[1][2] # q[3][2]
    /\ \/ (q[2] = <<q[3][1], q[1][2]>> /\ q[4] = <<q[1][1], q[3][2]>>)
       \/ (q[2] = <<q[1][1], q[3][2]>> /\ q[4] = <<q[3][1], q[1][2]>>)

\* Polygon(points).simplify(1.0, preserve_topology = False): the polygons the
\* library can hand back.  Points on one line give the empty polygon.  For a
\* rectangle of sides w and h the Douglas-Peucker pass keeps the corner
\* opposite to the first point and drops the other two when their distance
\* w*h / sqrt(w*w + h*h) to the diagonal is at most the tolerance 1.0: the
\* ring collapses and the polygon is empty.  For other rings the result is
\* left open: empty, or a polygon within the bounds of the points.
simplify(points) ==
    LET q == OpenRing(points)
    IN  IF Len(q) < 3 \/ Collinear(q) THEN {EmptyPolygon}
        ELSE LET b == BoundsOf(q)
                 w == b[3] - b[1]
                 h == b[4] - b[2]
             IN  IF IsRectangle(q)
                 THEN IF (w * h) * (w * h) > w * w + h * h
                      THEN {[area |-> w * h, bounds |-> b, coords |-> Append(q, q[1])]}
                      ELSE {EmptyPolygon}
                 ELSE {EmptyPolygon}
                      \cup {[area |-> a, bounds |-> b, coords |-> Append(q, q[1])] :
                               a \in 1..(w * h)}

\* One record of a polygon extractor.
PolyAnnotation(segmentation, is_crowd, image_id, category_id, id, bounds, area) ==
    [segmentation |-> segmentation, iscrowd |-> is_crowd, image_id |-> image_id,
     category_id |-> category_id, id |-> id,
     bbox |-> <<bounds[1], bounds[2], bounds[3] - bounds[1], bounds[4] - bounds[2]>>,
     area |-> area]

\* BUG VARIANT: three points are enough.
mask_annotation_per_bbox_three_points(anno_line, image_id, category_id, annotation_id, is_crowd) ==
    IF Len(anno_line.points) > 2 /\ anno_line.poly.area > 0
    THEN <<PolyAnnotation(<<Ravel(anno_line.points)>>, is_crowd, image_id, category_id,
                          annotation_id, anno_line.poly.bounds, anno_line.poly.area)>>
    ELSE <<>>

\* lines 513-561.  anno_line.points is the point list of anno_line[5],
\* anno_line.poly the simplified polygon of these points.
mask_annotation_per_bbox(anno_line, image_id, category_id, annotation_id, is_crowd) ==
    IF Len(anno_line.points) > 3
    THEN IF anno_line.poly.area > 0
         THEN <<PolyAnnotation(<<Ravel(anno_line.points)>>, is_crowd, image_id, category_id,
                               annotation_id, anno_line.poly.bounds, anno_line.poly.area)>>
         ELSE <<>>
    ELSE <<>>

RECURSIVE SumAreas(_)
SumAreas(polys) == IF polys = <<>> THEN 0 ELSE Head(polys).area + SumAreas(Tail(polys))

\* MultiPolygon(polygons).bounds: the box around the bounds of the parts
UnionBounds(polys) ==
    LET ne == {i \in DOMAIN polys : polys[i] # EmptyPolygon}
    IN  <<Min({polys[i].bounds[1] : i \in ne}), Min({polys[i].bounds[2] : i \in ne}),
          Max({polys[i].bounds[3] : i \in ne}), Max({polys[i].bounds[4] : i \in ne})>>

\* A sub-mask is the sequence of its contours with, for each contour, the
\* simplified polygon of the flipped contour (sub_mask.polys), and the way
\* the shapely build treats an empty part of a MultiPolygon.

\* lines 425-465: one record for the sub-mask.  An empty polygon among the
\* parts makes MultiPolygon raise in builds that refuse empty parts; with
\* only empty parts the bounds cannot be unpacked.
create_sub_mask_annotation(sub_mask, image_id, category_id, annotation_id, is_crowd) ==
    LET polys == sub_mask.polys
    IN  IF (\E i \in DOMAIN polys : polys[i] = EmptyPolygon) /\ sub_mask.empty_part_raises
        THEN [exc |-> "EmptyPartError", anns |-> <<>>]
        ELSE IF \A i \in DOMAIN polys : polys[i] = EmptyPolygon
        THEN [exc |-> "ValueError", anns |-> <<>>]
        ELSE [exc |-> "none",
              anns |-> <<PolyAnnotation([i \in DOMAIN polys |-> Ravel(polys[i].coords)],
                                        is_crowd, image_id, category_id, annotation_id,
                                        UnionBounds(polys), SumAreas(polys))>>]

\* BUG VARIANT: the per-instance variant merges the contours like the
\* whole-mask variant.
create_sub_mask_annotation_per_bbox_merged(sub_mask, image_id, category_id, annotation_id, is_crowd) ==
    create_sub_mask_annotation(sub_mask, image_id, category_id, annotation_id, is_crowd)

\* lines 467-511: one record per contour whose polygon has a positive area,
\* with id annotation_id + idx for the idx-th contour (from 0).
create_sub_mask_annotation_per_bbox(sub_mask, image_id, category_id, annotation_id, is_crowd) ==
    LET polys == sub_mask.polys
        kept  == SelectSeq([i \in DOMAIN polys |-> i], LAMBDA i : polys[i].area > 0)
    IN  [exc |-> "none",
         anns |-> [k \in DOMAIN kept |->
                     PolyAnnotation(<<Ravel(polys[kept[k]].coords)>>, is_crowd, image_id,
                                    category_id, annotation_id + (kept[k] - 1),
                                    polys[kept[k]].bounds, polys[kept[k]].area)]]

(* SpecMaskPoints: mask_annotation_per_bbox on bounded point lists *)

PointGrid == {0, 2} \X {0, 2}

InitMaskPoints ==
    /\ fn_pc = "in"
    /\ fn_arg \in UNION {{[fn |-> "mask_points", anno_line |-> [points |-> pts, poly |-> pl]] :
                             pl \in simplify(pts)} : pts \in SeqsUpTo(PointGrid, MaxPoints)}
    /\ fn_ret = Idle
    /\ AsmIdle /\ HeliosIdle

CallMaskPoints ==
    /\ fn_pc = "in" /\ fn_arg.fn = "mask_points"
    /\ fn_ret' = [exc |-> "none",
                  anns |-> mask_annotation_per_bbox(fn_arg.anno_line, 1, 2, 7, 0)]
    /\ fn_pc' = "out"
    /\ UNCHANGED <<fn_arg, avars, hvars>>

SpecMaskPoints == InitMaskPoints /\ [][CallMaskPoints]_vars

(* SpecSubMask: the two raster variants on the contours of one sub-mask *)

\* rectangular contours in the padded sub-mask: closed rings of <<row, col>>
\* from the corner <<r0, c0>>, between the grid lines 1, 3, 4 and 6
RegionLines == {1, 3, 4, 6}

RectContour(r0, c0, r1, c1) ==
    <<<<r0, c0>>, <<r0, c1>>, <<r1, c1>>, <<r1, c0>>, <<r0, c0>>>>

RegionContours ==
    {RectContour(b[1], b[2], b[3], b[4]) :
        b \in {x \in RegionLines \X RegionLines \X RegionLines \X RegionLines :
                  x[1] < x[3] /\ x[2] < x[4]}}

SubMasks ==
    {[contours |-> cs,
      polys |-> [i \in DOMAIN cs |-> CHOOSE pl \in simplify(FlipContour(cs[i])) : TRUE],
      empty_part_raises |-> e] :
        cs \in SeqsUpTo(RegionContours, MaxRegions) \ {<<>>}, e \in BOOLEAN}

InitSubMask ==
    /\ fn_pc = "in"
    /\ fn_arg \in [fn : {"sub_mask"}, sub_mask : SubMasks]
    /\ fn_ret = Idle
    /\ AsmIdle /\ HeliosIdle

CallSubMask ==
    /\ fn_pc = "in" /\ fn_arg.fn = "sub_mask"
    /\ fn_ret' = [whole |-> create_sub_mask_annotation(fn_arg.sub_mask, 1, 2, 7, 0),
                  per_bbox |-> create_sub_mask_annotation_per_bbox(fn_arg.sub_mask, 1, 2, 7, 0)]
    /\ fn_pc' = "out"
    /\ UNCHANGED <<fn_arg, avars, hvars>>

SpecSubMask == InitSubMask /\ [][CallSubMask]_vars

-----------------------------------------------------------------------------
(* Properties of the pure functions *)

Distinct(s) == \A i, j \in DOMAIN s : s[i] = s[j] => i = j

\* C8: for every sequence of N distinct label names, get_label2id maps the
\* i-th name to id i, so the ids assigned are exactly 1..N, each used once.
C8_LabelIdsDense ==
    (fn_pc = "out" /\ Distinct(fn_arg.labels_str)) =>
        LET l == fn_arg.labels_str
        IN  /\ DOMAIN fn_ret = Range(l)
            /\ \A i \in DOMAIN l : fn_ret[l[i]] = i
            /\ {fn_ret[n] : n \in DOMAIN fn_ret} = 1..Len(l)
            /\ \A n, m \in DOMAIN fn_ret : fn_ret[n] = fn_ret[m] => n = m

C8_Witness ==
    fn_pc = "out" /\ fn_arg.labels_str = <<"weed", "bg", "leaf">> /\ fn_ret["leaf"] = 3

\* C7: with resize 1.0 a record [x1,y1,x2,y2,c] with x2>x1 and y2>y1 yields
\* bbox [x1, y1, x2-x1+1, y2-y1+1], area (x2-x1+1)*(y2-y1+1), category_id c;
\* [10,10,50,50,2] yields bbox [10,10,41,41], category_id 2, area 1681.
C7_AnnolineInclusive ==
    (fn_pc = "out" /\ fn_arg.resize = <<1, 1>>
        /\ fn_arg.obj[3] > fn_arg.obj[1] /\ fn_arg.obj[4] > fn_arg.obj[2]) =>
        LET o == fn_arg.obj
        IN  /\ fn_ret.exc = "none" /\ fn_ret.kind = "ann"
            /\ fn_ret.ann.bbox = <<o[1], o[2], o[3] - o[1] + 1, o[4] - o[2] + 1>>
            /\ fn_ret.ann.area = (o[3] - o[1] + 1) * (o[4] - o[2] + 1)
            /\ fn_ret.ann.category_id = o[5]
            /\ (o = <<10, 10, 50, 50, 2>> =>
                  /\ fn_ret.ann.bbox = <<10, 10, 41, 41>>
                  /\ fn_ret.ann.area = 1681
                  /\ fn_ret.ann.category_id = 2)

C7_Witness ==
    /\ fn_pc = "out" /\ fn_arg.resize = <<1, 1>> /\ fn_arg.obj = <<10, 10, 50, 50, 2>>
    /\ fn_ret.kind = "ann"

\* The objects C6 speaks of: the resolved label is in the label map and the
\* box element is present with x2 > x1 and y2 > y1.
C6_Case ==
    /\ fn_pc = "out"
    /\ resolved_label(fn_arg.obj, fn_arg.name_converter) \in DOMAIN XmlLabel2id
    /\ fn_arg.obj.tag # None
    /\ fn_arg.obj.box[3] > fn_arg.obj.box[1] /\ fn_arg.obj.box[4] > fn_arg.obj.box[2]

\* C6 as stated: such an object yields bbox [x1-1, y1-1, x2-x1, y2-y1]
\* (exclusive width and height) and the label's id as category_id.
C6_ObjExclusive ==
    C6_Case =>
        LET b == fn_arg.obj.box
        IN  /\ fn_ret.kind = "ann"
            /\ fn_ret.ann.bbox = <<b[1] - 1, b[2] - 1, b[3] - b[1], b[4] - b[2]>>
            /\ fn_ret.ann.category_id =
                   XmlLabel2id[resolved_label(fn_arg.obj, fn_arg.name_converter)]

\* C6 amended: such an object yields bbox [x1-1, y1-1, x2-x1+1, y2-y1+1] (the
\* width and height are measured from the shifted corner) and the label's id
\* as category_id; xmin=10, ymin=10, xmax=50, ymax=50 gives bbox [9,9,41,41].
C6_ObjShiftedCorner ==
    C6_Case =>
        LET b == fn_arg.obj.box
        IN  /\ fn_ret.exc = "none" /\ fn_ret.kind = "ann"
            /\ fn_ret.ann.bbox = <<b[1] - 1, b[2] - 1, b[3] - b[1] + 1, b[4] - b[2] + 1>>
            /\ fn_ret.ann.area = (b[3] - b[1] + 1) * (b[4] - b[2] + 1)
            /\ fn_ret.ann.category_id =
                   XmlLabel2id[resolved_label(fn_arg.obj, fn_arg.name_converter)]
            /\ (b = <<10, 10, 50, 50>> => fn_ret.ann.bbox = <<9, 9, 41, 41>>)

C6_Witness ==
    /\ C6_Case
    /\ fn_arg.obj = XmlObj(None, "leaf", "bndbox", <<10, 10, 50, 50>>)
    /\ fn_arg.name_converter = EmptyMap
    /\ fn_ret.ann.category_id = 2

\* C11: the resolved label is the sub-label when one is present and the
\* primary label (after the optional remapping) otherwise; for every object
\* whose resolved label is absent from the label map, whether it came from
\* the sub-label or from the primary field, get_coco_annotation_from_obj
\* returns the empty result and raises nothing.
C11_UnknownLabelSkipped ==
    (fn_pc = "out"
        /\ resolved_label(fn_arg.obj, fn_arg.name_converter) \notin DOMAIN XmlLabel2id) =>
        (fn_ret.exc = "none" /\ fn_ret.kind = "empty")

\* both lines are decodable images at least two directories deep, and the
\* composite-filename option is set
C18_Case ==
    /\ fn_pc = "out" /\ fn_arg.fn = "image_info" /\ fn_arg.add_foldername
    /\ fn_arg.a.readable /\ fn_arg.b.readable
    /\ Len(fn_arg.a.path) >= 3 /\ Len(fn_arg.b.path) >= 3

\* C18 as stated: with add_foldername the file_name of an image at .../G/P/F
\* is built from the grandparent G and the parent P, so two images with the
\* same base name and the same parent name but different grandparents get
\* different file_name values.
C18_CompositeUsesGrandparent ==
    (C18_Case /\ FromEnd(fn_arg.a.path, 1) = FromEnd(fn_arg.b.path, 1)
        /\ FromEnd(fn_arg.a.path, 2) = FromEnd(fn_arg.b.path, 2)
        /\ FromEnd(fn_arg.a.path, 3) # FromEnd(fn_arg.b.path, 3)) =>
        (fn_ret[1].ok /\ fn_ret[2].ok /\ fn_ret[1].info.file_name # fn_ret[2].info.file_name)

\* C18 amended: with add_foldername the file_name of an image at .../G/P/F
\* is "P_F", the parent directory name and the base name; the grandparent
\* does not enter it, so two images with the same base name and the same
\* parent name get the same file_name whatever their grandparents are, and
\* images with different parent names get different ones.
C18_CompositeUsesParent ==
    C18_Case =>
        /\ fn_ret[1].ok /\ fn_ret[2].ok
        /\ fn_ret[1].info.file_name =
               FromEnd(fn_arg.a.path, 2) \o <<"_">> \o FromEnd(fn_arg.a.path, 1)
        /\ fn_ret[2].info.file_name =
               FromEnd(fn_arg.b.path, 2) \o <<"_">> \o FromEnd(fn_arg.b.path, 1)
        /\ (FromEnd(fn_arg.a.path, 1) = FromEnd(fn_arg.b.path, 1)
               /\ FromEnd(fn_arg.a.path, 2) = FromEnd(fn_arg.b.path, 2)) =>
              fn_ret[1].info.file_name = fn_ret[2].info.file_name
        /\ (FromEnd(fn_arg.a.path, 1) = FromEnd(fn_arg.b.path, 1)
               /\ FromEnd(fn_arg.a.path, 2) # FromEnd(fn_arg.b.path, 2)) =>
              fn_ret[1].info.file_name # fn_ret[2].info.file_name

\* weed/v1/img7 and x/v1/img7 have both been named v1_img7
C18_Witness ==
    /\ C18_Case
    /\ fn_arg.a.path = <<<<"weed">>, <<"v", "1">>, <<"img", "7">>>>
    /\ fn_arg.b.path = <<<<"x">>, <<"v", "1">>, <<"img", "7">>>>
    /\ fn_ret[1].info.file_name = <<"v", "1", "_", "img", "7">>
    /\ fn_ret[2].info.file_name = <<"v", "1", "_", "img", "7">>

\* C21: mask_annotation_per_bbox returns the empty list, raising nothing,
\* for every point list of fewer than 4 points; for a list of 4 or more
\* points it returns at most one record, and none when the area of the
\* simplified polygon is zero.
C21_FewPointsSkipped ==
    (fn_pc = "out" /\ fn_arg.fn = "mask_points") =>
        LET a == fn_arg.anno_line
        IN  /\ fn_ret.exc = "none"
            /\ (Len(a.points) < 4 => fn_ret.anns = <<>>)
            /\ (Len(a.points) >= 4 =>
                  /\ Len(fn_ret.anns) <= 1
                  /\ (a.poly.area = 0 => fn_ret.anns = <<>>)
                  /\ (a.poly.area > 0 =>
                        /\ Len(fn_ret.anns) = 1
                        /\ fn_ret.anns[1].area = a.poly.area
                        /\ fn_ret.anns[1].id = 7 /\ fn_ret.anns[1].category_id = 2))

\* three points that span a triangle of positive area gave no record
C21_Witness ==
    /\ fn_pc = "out" /\ fn_arg.fn = "mask_points"
    /\ fn_arg.anno_line.points = <<<<0, 0>>, <<2, 0>>, <<0, 2>>>>
    /\ fn_arg.anno_line.poly.area > 0
    /\ fn_ret.exc = "none" /\ fn_ret.anns = <<>>

\* the box <<x, y, width, height>> of a rectangular contour, read from its
\* first corner <<r0, c0>> and its third corner <<r1, c1>>
C22_BoxOf(contour) ==
    <<contour[1][2] - 1, contour[1][1] - 1,
      contour[3][2] - contour[1][2], contour[3][1] - contour[1][1]>>

\* the sub-mask has two contours: disjoint regions whose polygons have a
\* non-zero area
C22_Case ==
    /\ fn_pc = "out" /\ fn_arg.fn = "sub_mask"
    /\ Len(fn_arg.sub_mask.contours) = 2
    /\ \A i \in 1..2 : fn_arg.sub_mask.polys[i].area > 0
    /\ LET a == fn_arg.sub_mask.contours[1]
           b == fn_arg.sub_mask.contours[2]
       IN  \/ a[3][1] < b[1][1] \/ b[3][1] < a[1][1]
           \/ a[3][2] < b[1][2] \/ b[3][2] < a[1][2]

\* C22: for a sub-mask whose contours are two disjoint regions of non-zero
\* area, create_sub_mask_annotation_per_bbox returns two records, one per
\* region with the region's own bounding box, and create_sub_mask_annotation
\* returns one record whose bbox is the smallest box around both regions'
\* boxes and whose segmentation lists both polygons.
C22_TwoRegions ==
    C22_Case =>
        LET a  == C22_BoxOf(fn_arg.sub_mask.contours[1])
            b  == C22_BoxOf(fn_arg.sub_mask.contours[2])
            x  == IF a[1] < b[1] THEN a[1] ELSE b[1]
            y  == IF a[2] < b[2] THEN a[2] ELSE b[2]
            mx == IF a[1] + a[3] > b[1] + b[3] THEN a[1] + a[3] ELSE b[1] + b[3]
            my == IF a[2] + a[4] > b[2] + b[4] THEN a[2] + a[4] ELSE b[2] + b[4]
        IN  /\ fn_ret.per_bbox.exc = "none"
            /\ Len(fn_ret.per_bbox.anns) = 2
            /\ fn_ret.per_bbox.anns[1].bbox = a
            /\ fn_ret.per_bbox.anns[2].bbox = b
            /\ \A k \in 1..2 : Len(fn_ret.per_bbox.anns[k].segmentation) = 1
            /\ fn_ret.whole.exc = "none"
            /\ Len(fn_ret.whole.anns) = 1
            /\ fn_ret.whole.anns[1].bbox = <<x, y, mx - x, my - y>>
            /\ Len(fn_ret.whole.anns[1].segmentation) = 2
            /\ \A k \in 1..2 : fn_ret.whole.anns[1].segmentation[k] # <<>>

\* two squares of side 2, at rows and columns 1..3 and 4..6 of the padded mask
C22_Witness ==
    /\ C22_Case
    /\ fn_arg.sub_mask.contours = <<RectContour(1, 1, 3, 3), RectContour(4, 4, 6, 6)>>
    /\ fn_ret.per_bbox.anns[1].bbox = <<0, 0, 2, 2>>
    /\ fn_ret.per_bbox.anns[2].bbox = <<3, 3, 2, 2>>
    /\ fn_ret.whole.anns[1].bbox = <<0, 0, 5, 5>>

-----------------------------------------------------------------------------
(* Properties of convert_bbox_to_coco *)

StrictlyIncreasingIds(anns) ==
    \A i, j \in DOMAIN anns : i < j => anns[i].id < anns[j].id

\* C1: in a job run without bnd_id_list the ids of the records of
\* 'annotations' are pairwise distinct and strictly increasing in append
\* order; the counter is not reset when the loop moves to the next image.
C1_BboxIdsIncreasing ==
    (cfg.kind = "bbox" /\ cfg.bnd_id_list = <<>>) => StrictlyIncreasingIds(annotations)

\* the row's box after scaling has xmax <= xmin or ymax <= ymin
Degenerate(row, resize) ==
    \/ Scaled(row[3], resize) <= Scaled(row[1], resize)
    \/ Scaled(row[4], resize) <= Scaled(row[2], resize)

\* the box loop has just handled a degenerate row
C9_Case == cfg.kind = "bbox" /\ cur.obj # Idle /\ Degenerate(cur.obj, cfg.resize)

\* the id the row handled last would carry in 'annotations'
C9_IdOfLast == bbox_ann_id(cfg, img_idx - (IF pc \in {"loop", "done"} THEN 1 ELSE 0),
                           cur.bnd_idx - 1).id

C12_UnreadableStep ==
    /\ cfg.kind = "bbox" /\ pc = "loop" /\ pc' \notin {"done", "abort"}
    /\ cur'.line # Idle /\ ~cur'.line.readable

\* C12: when the image of a line cannot be read or decoded,
\* get_image_info_from_annoline returns (None, None) without raising, and
\* convert_bbox_to_coco adds no ImageRecord and no AnnotationRecord for the
\* line, copies no file for it, goes on with the next line and still writes
\* the JSON.
C12_UnreadableLineSkipped ==
    /\ [][C12_UnreadableStep =>
            /\ ~get_image_info_from_annoline(cur'.line, img_idx + 1, cfg.resize,
                                             cfg.add_foldername).ok
            /\ images' = images /\ annotations' = annotations /\ img_dir' = img_dir
            /\ err' = "none" /\ pc' = "loop" /\ img_idx' = img_idx + 1
            /\ ~cur'.has_info]_vars
    /\ []((cfg.kind = "bbox" /\ pc = "done") =>
            (json_file # NoFile /\ json_file[1].images = images
                /\ json_file[1].annotations = annotations))

\* the first line was unreadable, the second was converted and the JSON
\* holds the second image only
C12_Witness ==
    /\ cfg.kind = "bbox" /\ pc = "done" /\ img_idx = 2 /\ cur.line.readable
    /\ json_file # NoFile /\ Len(json_file[1].images) = 1
    /\ json_file[1].images[1].id = 2
    /\ Len(json_file[1].annotations) = 1 /\ json_file[1].annotations[1].image_id = 2

\* C14: when the copy (or re-encoding) of one image into the output image
\* directory fails, the job goes on and the image's contribution is dropped:
\* the bundle holds no ImageRecord and no AnnotationRecord of that image.
C14_CopyFailureDropsImage ==
    (cfg.kind = "bbox" /\ pc \in {"loop", "done"} /\ cur.line # Idle /\ cur.has_info
        /\ ~cur.line.copy_ok) =>
        /\ err = "none"
        /\ \A i \in DOMAIN images : images[i].id # cur.info.id
        /\ \A i \in DOMAIN annotations : annotations[i].image_id # cur.info.id
        /\ (pc = "done" =>
              /\ \A i \in DOMAIN json_file[1].images :
                    json_file[1].images[i].id # cur.info.id
              /\ \A i \in DOMAIN json_file[1].annotations :
                    json_file[1].annotations[i].image_id # cur.info.id)

\* C15: in every bundle the ids of the ImageRecords are pairwise distinct
\* and the image_id of every AnnotationRecord is the id of the ImageRecord
\* of the image it was extracted from, under each id policy (explicit id
\* list, digits of the file name, sequential index).
C15_ImageIdsConsistent ==
    cfg.kind = "bbox" =>
        /\ \A i, j \in DOMAIN images : images[i].id = images[j].id => i = j
        /\ \A k \in DOMAIN annotations :
              \E i \in DOMAIN images : images[i].id = annotations[k].image_id
        /\ (pc = "boxes" /\ cur.bnd_idx > 0 /\ annotations # <<>>) =>
              annotations[Len(annotations)].image_id = images[Len(images)].id

RECURSIVE C16_AllDigitsValue(_)
\* the number read from all the digits of a name, taken in order
C16_AllDigitsValue(name) ==
    IF name = <<>> THEN 0
    ELSE LET c == name[Len(name)]
             v == C16_AllDigitsValue(SubSeq(name, 1, Len(name) - 1))
         IN  IF IsDigit(c) THEN 10 * v + DigitVal(c) ELSE v

RECURSIVE C16_FirstRunValue(_, _, _)
\* the number read from the first contiguous run of digits of a name
C16_FirstRunValue(name, v, started) ==
    IF name = <<>> THEN v
    ELSE IF IsDigit(Head(name))
         THEN C16_FirstRunValue(Tail(name), 10 * v + DigitVal(Head(name)), TRUE)
         ELSE IF started THEN v ELSE C16_FirstRunValue(Tail(name), v, FALSE)

\* the jobs run under the filename-digits id policy
C16_Case == cfg.kind = "bbox" /\ cfg.extract_num_from_imgid /\ cfg.image_id_list = <<>>
                /\ ~cfg.add_foldername

\* C16 as stated: under the filename-digits policy the image id is the value
\* of the first contiguous run of digits of the file name; later digits,
\* after a non-digit character, do not contribute.
C16_FirstDigitRun ==
    C16_Case =>
        \A i \in DOMAIN images : images[i].id = C16_FirstRunValue(images[i].file_name, 0, FALSE)

\* C16 amended: under the filename-digits policy the image id is the value
\* of all the decimal digits of the file name concatenated in order, so
\* digits after a non-digit character do contribute (img12_v3 gives 123);
\* a name with no digit ends the job with a ValueError.
C16_AllDigitsConcatenated ==
    C16_Case =>
        /\ \A i \in DOMAIN images :
              /\ images[i].id = C16_AllDigitsValue(images[i].file_name)
              /\ \E j \in DOMAIN images[i].file_name : IsDigit(images[i].file_name[j])
              /\ (images[i].file_name = <<"img", "1", "2", "_v", "3">> => images[i].id = 123)
        /\ err \in {"none", "ValueError"}
        /\ (err = "ValueError" => pc = "abort" /\ json_file = NoFile)

\* a job has met a name with two runs of digits, then a name without digits
C16_Witness ==
    /\ C16_Case /\ pc = "abort" /\ err = "ValueError" /\ Len(images) = 1
    /\ images[1].file_name = <<"img", "1", "2", "_v", "3">> /\ images[1].id = 123

\* the label ids of the grandparent and parent directory of the current line
C20_IdOf(comp) == {cfg.label2id[l] : l \in {m \in DOMAIN cfg.label2id : comp = <<m>>}}
C20_Grand  == IF Len(cur.line.path) >= 3 THEN C20_IdOf(FromEnd(cur.line.path, 3)) ELSE {}
C20_Parent == IF Len(cur.line.path) >= 2 THEN C20_IdOf(FromEnd(cur.line.path, 2)) ELSE {}
C20_Expected == IF C20_Grand # {} THEN C20_Grand ELSE C20_Parent

\* the records appended for the current line
C20_Records == {k \in DOMAIN annotations : annotations[k].image_id = cur.info.id}

\* C20: with get_label_from_folder every box of a line gets the label-map id
\* of the grandparent directory name when that is a known label, otherwise
\* of the parent directory name when that is one, whatever the category token
\* of the record says; when neither is a known label the first box of the
\* line ends the job with an error and no annotation is emitted for it.
C20_FolderDerivedLabel ==
    (cfg.kind = "bbox" /\ cfg.get_label_from_folder /\ cur.line # Idle /\ cur.has_info) =>
        /\ \A k \in C20_Records : annotations[k].category_id \in C20_Expected
        /\ (C20_Expected # {} /\ err = "none") => Cardinality(C20_Records) = cur.bnd_idx
        /\ (C20_Expected = {}) =>
              /\ C20_Records = {} /\ cur.bnd_idx = 0
              /\ (cur.n > 0 => pc \in {"boxes", "abort"})
              /\ (pc = "abort" => err = "RuntimeError" /\ json_file = NoFile)

\* a box with token 1 below weed/bg/ was written with the id of "weed", and
\* the JSON was written
C20_Witness ==
    /\ cfg.kind = "bbox" /\ cfg.get_label_from_folder /\ pc = "done"
    /\ cur.line # Idle /\ cur.has_info
    /\ cur.line.path = <<<<"weed">>, <<"bg">>, <<"img", "7">>>>
    /\ cur.obj # Idle /\ cur.obj[5] = 2
    /\ Len(json_file[1].annotations) = 1 /\ json_file[1].annotations[1].category_id = 2
    /\ cfg.boxes = {<<10, 10, 50, 50, 1, 1>>}

C28_CategoryIdsInMap ==
    (cfg.kind = "bbox" /\ json_file # NoFile) =>
        LET doc == json_file[1]
        IN  \A i \in DOMAIN doc.annotations :
              /\ \E c \in DOMAIN doc.categories :
                    doc.categories[c].id = doc.annotations[i].category_id
              /\ \E l \in DOMAIN cfg.label2id :
                    cfg.label2id[l] = doc.annotations[i].category_id

-----------------------------------------------------------------------------
(* Properties of convert_xmls_to_cocojson *)

\* C2: over any sequence of annotation files and any mix of kept and skipped
\* objects, the ids of the records of 'annotations' are pairwise distinct and
\* strictly increasing in append order, produced by one counter that spans
\* the whole job (the k-th record appended carries id k).
C2_XmlIdsIncreasing ==
    cfg.kind = "xml" =>
        /\ StrictlyIncreasingIds(annotations)
        /\ \A i, j \in DOMAIN annotations : annotations[i].id = annotations[j].id => i = j
        /\ \A i \in DOMAIN annotations : annotations[i].id = i
        /\ bnd_id = Len(annotations) + 1

\* two files have contributed records and the object handled last was skipped
C2_Witness ==
    /\ cfg.kind = "xml" /\ pc = "done" /\ Len(json_file[1].annotations) = 3
    /\ json_file[1].annotations[1].image_id # json_file[1].annotations[3].image_id
    /\ cur.obj # Idle
    /\ ~Truthy(get_coco_annotation_from_obj(cur.obj, cfg.label2id, cfg.name_converter))

\* the object handled last has a known label and a box element
C10_Known ==
    /\ cfg.kind = "xml" /\ cur.obj # Idle
    /\ resolved_label(cur.obj, cfg.name_converter) \in DOMAIN cfg.label2id
    /\ cur.obj.tag # None

\* C10 as stated: a known-label object whose box as read has xmax <= xmin or
\* ymax <= ymin (the boundary xmax = xmin or ymax = ymin included) makes the
\* extractor fail with the box-size error, which leaves
\* convert_xmls_to_cocojson.
C10_DegenerateIsFatal ==
    (C10_Known /\ (cur.obj.box[3] <= cur.obj.box[1] \/ cur.obj.box[4] <= cur.obj.box[2])) =>
        (pc = "abort" /\ err = "AssertionError")

\* C10 amended: a known-label object whose box as read has xmax < xmin or
\* ymax < ymin makes the extractor fail with the box-size error, which leaves
\* convert_xmls_to_cocojson before any JSON is written; in the boundary case
\* (xmax = xmin with ymax >= ymin, or ymax = ymin with xmax >= xmin) the
\* assertion passes, because it is made after xmin and ymin were lowered by
\* one, and the object is kept with width (height) 1.
C10_InvertedIsFatal ==
    /\ (C10_Known /\ (cur.obj.box[3] < cur.obj.box[1] \/ cur.obj.box[4] < cur.obj.box[2])) =>
          (pc = "abort" /\ err = "AssertionError" /\ json_file = NoFile)
    /\ (C10_Known /\ cur.obj.box[3] >= cur.obj.box[1] /\ cur.obj.box[4] >= cur.obj.box[2]
          /\ (cur.obj.box[3] = cur.obj.box[1] \/ cur.obj.box[4] = cur.obj.box[2])) =>
          /\ err # "AssertionError"
          /\ cur.has_info =>
                /\ annotations # <<>>
                /\ annotations[Len(annotations)].bbox =
                       <<cur.obj.box[1] - 1, cur.obj.box[2] - 1,
                         cur.obj.box[3] - cur.obj.box[1] + 1,
                         cur.obj.box[4] - cur.obj.box[2] + 1>>

\* an inverted box has ended the job
C10_Witness ==
    /\ C10_Known /\ cur.obj.box = <<50, 10, 10, 50>>
    /\ pc = "abort" /\ err = "AssertionError" /\ Len(annotations) = 1

\* C13: when the image of one annotation file cannot be read or decoded,
\* convert_xmls_to_cocojson leaves that image and its annotations out of the
\* output (no null entry in 'images'), goes on with the remaining files and
\* writes the JSON; the failure does not end the job.
C13_XmlUnreadableSkipped ==
    (cfg.kind = "xml" /\ cur.line # Idle /\ ~cur.line.readable) =>
        /\ err = "none" /\ pc # "abort"
        /\ \A i \in DOMAIN images : images[i] # NoInfo
        /\ (pc = "done" => json_file # NoFile)

-----------------------------------------------------------------------------
(* Properties of HeliosDataFormatConverter.convert *)

\* the per-subject directories of the source images
OriginalDirs == {fs.src[k].parents[1] : k \in DOMAIN fs.src}

OriginalsIntact == \A d \in OriginalDirs : d \in fs.dirs
OriginalsGone   == \A d \in OriginalDirs : d \notin fs.dirs

\* C3: in the annotations.json of a dataset with two or more images no two
\* annotation records share an id, whichever image produced them.
C3_HeliosIdsUnique ==
    (hpc # "idle" /\ fs.json # NoFile /\ fs.json[1].complete
        /\ Len(fs.json[1].doc.images) >= 2) =>
        LET anns == fs.json[1].doc.annotations
        IN  \A i, j \in DOMAIN anns : anns[i].id = anns[j].id => i = j

\* convert has ended with an exception raised while converting
C4_Case == hpc = "failed" /\ hloc.exc # "none"

C5_NoMixedState ==
    (hpc \in {"done", "failed"}) =>
        \/ (fs.json # NoFile /\ fs.images_dir # NoFile /\ OriginalsGone)
        \/ (fs.json = NoFile /\ fs.images_dir = NoFile /\ OriginalsIntact)

\* C24: a directory below the dataset path is deleted only by the step that
\* follows the return of _convert_object_detection_dataset without an
\* exception: annotations.json is then written in full, and no step of the
\* conversion has raised.  No directory goes before the write of the JSON has
\* finished, and none after a step of the conversion raised.
C24_DeleteAfterSuccess ==
    [][(fs'.dirs # fs.dirs) =>
          /\ hpc = "remove" /\ hloc.exc = "none"
          /\ fs.json # NoFile /\ fs.json[1].complete
          /\ fs'.json = fs.json /\ fs'.images_dir = fs.images_dir]_vars

\* convert returned after deleting image0 and image1, with the JSON of two
\* images on disk
C24_Witness ==
    /\ hpc = "done" /\ hloc.exc = "none"
    /\ <<"image", "0">> \notin fs.dirs /\ <<"image", "1">> \notin fs.dirs
    /\ fs.json # NoFile /\ fs.json[1].complete /\ Len(fs.json[1].doc.images) = 2

\* the index in meta.labels of the label whose text file gave the k-th box
\* of an image, the boxes being numbered label after label
C25_SourceLabel(boxes_by_label, k) ==
    LET Upto(l) == Len(Flatten(SubSeq(boxes_by_label, 1, l)))
    IN  CHOOSE l \in DOMAIN boxes_by_label : Upto(l - 1) < k /\ k <= Upto(l)

\* C25: in the annotations.json written, every annotation's category_id is
\* the id of an entry of 'categories', and that entry's name is the label
\* whose text file the box was read from.
C25_CategoryOfSourceLabel ==
    (hpc # "idle" /\ fs.json # NoFile /\ fs.json[1].complete /\ hloc.map # <<>>) =>
        LET doc == fs.json[1].doc
        IN  \A i \in DOMAIN doc.annotations :
              LET a == doc.annotations[i]
                  l == C25_SourceLabel(hloc.map[a.image_id], a.id)
              IN  \E c \in DOMAIN doc.categories :
                    /\ doc.categories[c].id = a.category_id
                    /\ doc.categories[c].name = hmeta.labels[l]

\* C26: a call of convert that fails removes only output that the call
\* itself created: an annotations.json and an images/ directory that were
\* there before the call are there after it, with every image they held;
\* a second call on a converted dataset loses no image and no annotation
\* file.
C26_FailureKeepsEarlierOutput ==
    (hpc = "failed" /\ "before" \in DOMAIN fs) =>
        /\ (fs.before.json # NoFile => fs.json # NoFile)
        /\ (fs.before.images_dir # NoFile =>
              /\ fs.images_dir # NoFile
              /\ fs.before.images_dir[1] \subseteq fs.images_dir[1])

\* the directories the call has removed from the dataset path
C27_Removed == fs.before.dirs \ fs.dirs

\* the per-subject directories of the images the call converted
C27_Contributed ==
    {hloc.jpeg_images[k].parents[1] : k \in DOMAIN hloc.jpeg_images} \ {ImagesDirName}

\* C27: after a successful convert the directories removed from the dataset
\* path are exactly the per-subject directories from which images were
\* converted; a directory that contributed no image is left in place,
\* whatever its name.
C27_RemovesContributorsOnly ==
    (hpc = "done" /\ "before" \in DOMAIN fs) => C27_Removed = C27_Contributed

=============================================================================
